---- MODULE Spec2Model ----
(***************************************************************************)
(* SmartQ salon queue: the queue routes of registerRoutes                  *)
(* (POST/PUT/DELETE /api/queues, GET /api/queues/my) over the QueueEntry   *)
(* store.  The store class (MongoStorage) is not part of the sources at    *)
(* hand; its operations are modelled from the persistence contract of the  *)
(* specification (section 6) and the data model (section 3).               *)
(***************************************************************************)
EXTENDS Integers, Sequences, FiniteSets, TLC

\* ------------------------------------------------------------------ bounds
\* number of queue entries ever created under Spec (ids 1..MaxEntries)
MaxEntries == 2
\* number of queue entries ever created under SpecTickets
MaxTickets == 3
\* number of queue entries ever created under SpecAnalytics
MaxBookings == 3
\* number of queue entries ever created under SpecWaits
MaxWaits == 3
\* number of queue entries ever created under SpecPatch
MaxPatched == 2
\* number of reviews ever created under SpecReviews
MaxReviews == 2
\* number of queue entries ever created under SpecAtomic
MaxAtomicEntries == 2
\* number of queue entries ever created under SpecRace
MaxRaceEntries == 2
\* number of queue entries ever created under SpecConc
MaxConcEntries == 1
\* number of queue entries ever created under SpecWs
MaxWsEntries == 2

\* ------------------------------------------------------- the small universe
Users == {"a", "b", "o"}
\* users who send join requests
Customers == {"a", "b"}
Salons == {"s1", "s2"}
Services == {"v1"}
\* salon.ownerId: "o" owns s1; "b" owns s2 and is a customer elsewhere
ownerId == [s \in Salons |-> IF s = "s1" THEN "o" ELSE "b"]

\* status enum of the queues table
Status == {"waiting", "in-progress", "completed", "no-show"}

\* a field that the request body does not carry
Absent == "absent"
\* estimatedWaitTime column without a value (null)
NoWait == -1
\* estimatedWaitTime key not present in a request body
AbsentWait == -2

\* result of a lookup that finds nothing (undefined)
NoQueue == [id |-> 0, salonId |-> Absent, userId |-> Absent, serviceId |-> Absent,
            status |-> Absent, position |-> 0, timestamp |-> 0,
            estimatedWaitTime |-> NoWait]

\* no call of broadcastQueueUpdate during the last request
NoBroadcast == [salonId |-> Absent, data |-> << >>]

VARIABLES
    queues,     \* the QueueEntry store, in creation order
    nextId,     \* number of entries created so far (ids and timestamps)
    response,   \* the last HTTP request and its answer
    broadcast,  \* the broadcastQueueUpdate call of the last request, if any
    rt,         \* history: a successful join and the leave right after it
    conns,      \* the state of each WebSocket connection
    clients,    \* the clients Map, in insertion order: entries [userId, ws]
    delivered,  \* per connection, the Map entries sent to and skipped by the last request
    sentAuth,   \* history: connections that sent an authenticate with a user id
    inflight,   \* per request slot, the handler suspended at an await, if any
    reviews,    \* the Review store, in creation order
    rating      \* the stored rating of each salon, in tenths ("4.5" is 45)

vars == <<queues, nextId, response, broadcast, rt, conns, clients, delivered, sentAuth,
          inflight, reviews, rating>>

\* ------------------------------------------------------------ store (spec 6)
Range(f) == {f[i] : i \in DOMAIN f}

Ids(qs) == {q.id : q \in Range(qs)}

\* storage.getQueue(id)
getQueue(qs, id) ==
    IF id \in Ids(qs) THEN CHOOSE q \in Range(qs) : q.id = id ELSE NoQueue

\* variant: the salon's entries newest first
getQueuesBySalon_NewestFirst(qs, s) ==
    LET l == SelectSeq(qs, LAMBDA q : q.salonId = s)
    IN  [i \in 1..Len(l) |-> l[Len(l) + 1 - i]]

\* storage.getQueuesBySalon(salonId): the salon's entries in creation order
getQueuesBySalon(qs, s) == SelectSeq(qs, LAMBDA q : q.salonId = s)

\* storage.getQueuesByUser(userId)
getQueuesByUser(qs, u) == SelectSeq(qs, LAMBDA q : q.userId = u)

\* storage.getUserQueuePosition(userId, salonId): the customer's waiting or
\* in-progress entry at the salon when there is one, else an earlier entry
getUserQueuePosition(qs, u, s) ==
    LET mine   == SelectSeq(qs, LAMBDA q : q.userId = u /\ q.salonId = s)
        active == SelectSeq(mine, LAMBDA q : q.status \in {"waiting", "in-progress"})
    IN  IF Len(active) > 0 THEN active[1]
        ELSE IF Len(mine) > 0 THEN mine[1]
        ELSE NoQueue

\* storage.createQueue(queueData): ticket position = waiting count + 1
createQueue(qs, id, u, s, v, e) ==
    LET waiting == SelectSeq(getQueuesBySalon(qs, s), LAMBDA q : q.status = "waiting")
    IN  Append(qs, [id |-> id, salonId |-> s, userId |-> u, serviceId |-> v,
                    status |-> "waiting", position |-> Len(waiting) + 1,
                    timestamp |-> id, estimatedWaitTime |-> e])

\* storage.updateQueue(id, updates): the fields of the patch overwrite the entry
applyUpdates(q, updates) ==
    [q EXCEPT
        !.status    = IF updates.status = Absent THEN @ ELSE updates.status,
        !.salonId   = IF updates.salonId = Absent THEN @ ELSE updates.salonId,
        !.userId    = IF updates.userId = Absent THEN @ ELSE updates.userId,
        !.serviceId = IF updates.serviceId = Absent THEN @ ELSE updates.serviceId,
        !.position  = IF updates.position = 0 THEN @ ELSE updates.position,
        !.estimatedWaitTime =
            IF updates.estimatedWaitTime = AbsentWait THEN @
            ELSE updates.estimatedWaitTime]

updateQueue(qs, id, updates) ==
    [i \in DOMAIN qs |-> IF qs[i].id = id THEN applyUpdates(qs[i], updates) ELSE qs[i]]

\* storage.deleteQueue(id)
deleteQueue(qs, id) == SelectSeq(qs, LAMBDA q : q.id # id)

\* ------------------------------------------------------------ request bodies
\* a PUT body; position 0 = the body carries no position key
Body(st, s, u, v, e, p) ==
    [status |-> st, salonId |-> s, userId |-> u, serviceId |-> v,
     estimatedWaitTime |-> e, position |-> p]

\* bodies of updateStatus(entryId, requester, newStatus): a status, no status
\* at all, or a value outside the enum
StatusBodies ==
    {Body(st, Absent, Absent, Absent, AbsentWait, 0) :
        st \in Status \cup {Absent, "cancelled"}}

\* bodies that carry a position and any of the other keys of the schema
PatchBodies ==
    {Body(st, s, u, v, AbsentWait, 7) :
        st \in {Absent, "completed"}, s \in {Absent, "s2"}, u \in {Absent, "b"},
        v \in {Absent, "v2"}}

\* serviceId of a join body; Absent = the required key is missing
JoinServices == Services \cup {Absent}
\* estimatedWaitTime of a join body
JoinWaits == {NoWait}

\* insertQueueSchema.parse succeeds: salonId, userId, serviceId are required
validInsert(s, v) == s # Absent /\ v # Absent

\* insertQueueSchema.partial().parse succeeds: a status, when given, is in the enum
validPartial(body) == body.status \in Status \cup {Absent}

\* variant: a position key of the body is kept
parsePartial_KeepsPosition(body) ==
    [status |-> body.status, salonId |-> body.salonId, userId |-> body.userId,
     serviceId |-> body.serviceId, estimatedWaitTime |-> body.estimatedWaitTime,
     position |-> body.position]

\* the parsed updates: id, position and timestamp are omitted from the schema,
\* and a key the schema does not know is stripped from the result
parsePartial(body) ==
    [status |-> body.status, salonId |-> body.salonId, userId |-> body.userId,
     serviceId |-> body.serviceId, estimatedWaitTime |-> body.estimatedWaitTime,
     position |-> 0]

\* ------------------------------------------------------------------ handlers
\* the answer to a request, with who asked and for which salon or entry id
Reply(op, u, s, id, status, message) ==
    [op |-> op, userId |-> u, salonId |-> s, id |-> id,
     status |-> status, message |-> message]

\* no join-then-leave in progress
NoRt == [phase |-> "none", id |-> 0, userId |-> Absent, salonId |-> Absent,
         before |-> << >>, mid |-> << >>]

\* variant: only a waiting entry blocks a new join
alreadyInQueue_WaitingOnly(existingQueue) ==
    /\ existingQueue.id # 0
    /\ existingQueue.status = "waiting"

\* POST /api/queues, the duplicate check on the looked-up entry
alreadyInQueue(existingQueue) ==
    /\ existingQueue.id # 0
    /\ (existingQueue.status = "waiting" \/ existingQueue.status = "in-progress")

\* variant: the owner of any salon may update
mayUpdate_AnyOwner(queue, u) ==
    ~(queue.userId # u /\ \A s \in Salons : ownerId[s] # u)

\* PUT /api/queues/:id, the authorization check passes
mayUpdate(queue, u) ==
    ~(queue.userId # u /\ ownerId[queue.salonId] # u)

\* variant: the salon owner may remove an entry too
mayLeave_OwnerToo(queue, u) ==
    ~(queue.userId # u /\ ownerId[queue.salonId] # u)

\* DELETE /api/queues/:id, the authorization check passes
mayLeave(queue, u) == ~(queue.userId # u)

\* variant: the delete removes every entry of the entry's salon
leaveWrite_WholeSalon(qs, id) ==
    SelectSeq(qs, LAMBDA q : q.salonId # getQueue(qs, id).salonId)

\* DELETE /api/queues/:id, the store write
leaveWrite(qs, id) == deleteQueue(qs, id)

\* variant: the list sent is the one read before the write
Broadcast_Stale(qs, s) == [salonId |-> s, data |-> getQueuesBySalon(queues, s)]

\* the broadcastQueueUpdate call after a write: the re-read list of the salon
Broadcast(qs, s) == [salonId |-> s, data |-> getQueuesBySalon(qs, s)]

\* ---------------------------------------------------------------- WebSocket
Conns == {"c1", "c2"}

\* the messages a connection may send
Messages ==
    [kind : {"json"}, type : {"authenticate", "ping"}, userId : Customers \cup {Absent}]
        \cup {[kind |-> "malformed", type |-> Absent, userId |-> Absent]}

NoDelivery == [c \in Conns |-> [sent |-> 0, skipped |-> 0]]

\* variant: any parsed message with a type of authenticate registers
registers_NoUserId(data) == data.kind = "json" /\ data.type = "authenticate"

\* ws.on('message'): JSON.parse succeeds and the condition of the if holds
registers(data) ==
    data.kind = "json" /\ data.type = "authenticate" /\ data.userId # Absent

\* clients.set(userId, ws): an existing key keeps its place in the Map
clientsSet(cl, u, c) ==
    IF \E i \in DOMAIN cl : cl[i].userId = u
    THEN [i \in DOMAIN cl |-> IF cl[i].userId = u THEN [userId |-> u, ws |-> c] ELSE cl[i]]
    ELSE Append(cl, [userId |-> u, ws |-> c])

\* ws.on('close'): the first entry whose value is ws is deleted, then break
clientsDeleteFirst(cl, c) ==
    LET hits == {i \in DOMAIN cl : cl[i].ws = c} IN
    IF hits = {} THEN cl
    ELSE LET k == CHOOSE i \in hits : \A j \in hits : i <= j
         IN  [i \in 1..(Len(cl) - 1) |-> IF i < k THEN cl[i] ELSE cl[i + 1]]

\* variant: the readyState is not looked at
isOpen_Always(state) == TRUE

\* ws.readyState === WebSocket.OPEN
isOpen(state) == state = "open"

\* broadcastQueueUpdate: clients.forEach sends once per entry whose socket is
\* open and passes over the others
broadcastQueueUpdate(cl, cn) ==
    [c \in Conns |->
        [sent    |-> Cardinality({i \in DOMAIN cl : cl[i].ws = c /\ isOpen(cn[c])}),
         skipped |-> Cardinality({i \in DOMAIN cl : cl[i].ws = c /\ ~isOpen(cn[c])})]]

\* the sends of a request: those of its broadcastQueueUpdate call, if it makes one
Sends(b, cl, cn) == IF b = NoBroadcast THEN NoDelivery ELSE broadcastQueueUpdate(cl, cn)

\* wss.on('connection')
Connect(c) ==
    /\ conns[c] = "none"
    /\ conns' = [conns EXCEPT ![c] = "open"]
    /\ UNCHANGED <<queues, nextId, response, broadcast, rt, clients, delivered, sentAuth,
                   inflight, reviews, rating>>

\* ws.on('message') on connection c
Message(c, data) ==
    /\ conns[c] = "open"
    /\ clients' = IF registers(data) THEN clientsSet(clients, data.userId, c) ELSE clients
    /\ sentAuth' = IF data.kind = "json" /\ data.type = "authenticate" /\ data.userId \in Customers
                   THEN sentAuth \cup {c} ELSE sentAuth
    /\ UNCHANGED <<queues, nextId, response, broadcast, rt, conns, delivered, inflight,
                   reviews, rating>>

\* the closing handshake starts: readyState leaves OPEN, 'close' not yet emitted
BeginClose(c) ==
    /\ conns[c] = "open"
    /\ conns' = [conns EXCEPT ![c] = "closing"]
    /\ UNCHANGED <<queues, nextId, response, broadcast, rt, clients, delivered, sentAuth,
                   inflight, reviews, rating>>

\* ws.on('close') of connection c
CloseEvent(c) ==
    /\ conns[c] = "closing"
    /\ conns' = [conns EXCEPT ![c] = "closed"]
    /\ clients' = clientsDeleteFirst(clients, c)
    /\ UNCHANGED <<queues, nextId, response, broadcast, rt, delivered, sentAuth, inflight,
                   reviews, rating>>

\* ----------------------------------------------------------------- requests
\* POST /api/queues by user u with body {salonId: s, serviceId: v, estimatedWaitTime: e}
Join(u, s, v, e) ==
    /\ IF ~validInsert(s, v)
       THEN /\ response' = Reply("join", u, s, 0, 400, "Invalid queue data")
            /\ broadcast' = NoBroadcast
            /\ rt' = NoRt
            /\ UNCHANGED <<queues, nextId>>
       ELSE IF alreadyInQueue(getUserQueuePosition(queues, u, s))
       THEN /\ response' = Reply("join", u, s, 0, 400, "Already in queue for this salon")
            /\ broadcast' = NoBroadcast
            /\ rt' = NoRt
            /\ UNCHANGED <<queues, nextId>>
       ELSE /\ nextId' = nextId + 1
            /\ queues' = createQueue(queues, nextId + 1, u, s, v, e)
            /\ broadcast' = Broadcast(queues', s)
            /\ response' = Reply("join", u, s, nextId + 1, 201, "created")
            /\ rt' = [phase |-> "joined", id |-> nextId + 1, userId |-> u,
                      salonId |-> s, before |-> queues, mid |-> queues']
    /\ delivered' = Sends(broadcast', clients, conns)
    /\ UNCHANGED <<conns, clients, sentAuth, inflight, reviews, rating>>

\* PUT /api/queues/:id by user u
UpdateStatus(u, id, body) ==
    LET queue == getQueue(queues, id) IN
    /\ rt' = NoRt
    /\ UNCHANGED nextId
    /\ IF queue.id = 0
       THEN /\ response' = Reply("update", u, Absent, id, 404, "Queue entry not found")
            /\ broadcast' = NoBroadcast
            /\ UNCHANGED queues
       ELSE IF ~mayUpdate(queue, u)
       THEN /\ response' = Reply("update", u, Absent, id, 403, "Not authorized to update this queue entry")
            /\ broadcast' = NoBroadcast
            /\ UNCHANGED queues
       ELSE IF ~validPartial(body)
       THEN /\ response' = Reply("update", u, Absent, id, 400, "Invalid update data")
            /\ broadcast' = NoBroadcast
            /\ UNCHANGED queues
       ELSE /\ queues' = updateQueue(queues, id, parsePartial(body))
            /\ broadcast' = Broadcast(queues', queue.salonId)
            /\ response' = Reply("update", u, Absent, id, 200, "updated")
    /\ delivered' = Sends(broadcast', clients, conns)
    /\ UNCHANGED <<conns, clients, sentAuth, inflight, reviews, rating>>

\* DELETE /api/queues/:id by user u
Leave(u, id) ==
    LET queue == getQueue(queues, id) IN
    /\ UNCHANGED nextId
    /\ IF queue.id = 0
       THEN /\ response' = Reply("leave", u, Absent, id, 404, "Queue entry not found")
            /\ broadcast' = NoBroadcast
            /\ rt' = NoRt
            /\ UNCHANGED queues
       ELSE IF ~mayLeave(queue, u)
       THEN /\ response' = Reply("leave", u, Absent, id, 403, "Not authorized to leave this queue")
            /\ broadcast' = NoBroadcast
            /\ rt' = NoRt
            /\ UNCHANGED queues
       ELSE /\ queues' = leaveWrite(queues, id)
            /\ broadcast' = Broadcast(queues', queue.salonId)
            /\ response' = Reply("leave", u, Absent, id, 200, "Left queue successfully")
            /\ rt' = IF rt.phase = "joined" /\ rt.id = id
                     THEN [rt EXCEPT !.phase = "left"]
                     ELSE NoRt
    /\ delivered' = Sends(broadcast', clients, conns)
    /\ UNCHANGED <<conns, clients, sentAuth, inflight, reviews, rating>>

\* ------------------------------------------------------------------- reads
\* variant: the stored ticket position is reported for a waiting entry
userPosition_Ticket(qs, queue) ==
    IF queue.status = "in-progress" THEN 0 ELSE queue.position

\* variant: no sentinel, an in-progress entry reports its ticket position
userPosition_NoSentinel(qs, queue) ==
    LET salonQueues   == getQueuesBySalon(qs, queue.salonId)
        waitingQueues == SelectSeq(salonQueues, LAMBDA q : q.status = "waiting")
        found         == {i \in DOMAIN waitingQueues : waitingQueues[i].id = queue.id}
    IN  IF queue.status = "waiting" /\ found # {}
        THEN (CHOOSE i \in found : \A j \in found : i <= j)
        ELSE queue.position

\* GET /api/queues/my: the live position of one of the user's entries
userPosition(qs, queue) ==
    LET salonQueues   == getQueuesBySalon(qs, queue.salonId)
        waitingQueues == SelectSeq(salonQueues, LAMBDA q : q.status = "waiting")
        found         == {i \in DOMAIN waitingQueues : waitingQueues[i].id = queue.id}
    IN  IF queue.status = "waiting"
        THEN IF found # {}
             THEN (CHOOSE i \in found : \A j \in found : i <= j)
             ELSE queue.position
        ELSE IF queue.status = "in-progress" THEN 0
        ELSE queue.position

\* GET /api/queues/my: totalInQueue of one of the user's entries
totalInQueue(qs, queue) ==
    Len(SelectSeq(getQueuesBySalon(qs, queue.salonId), LAMBDA q : q.status = "waiting"))

\* GET /api/queues/my for user u: one item per entry of the user
myQueues(qs, u) ==
    LET mine == getQueuesByUser(qs, u)
    IN  [i \in DOMAIN mine |->
            [id |-> mine[i].id, salonId |-> mine[i].salonId,
             status |-> mine[i].status, timestamp |-> mine[i].timestamp,
             position |-> userPosition(qs, mine[i]),
             totalInQueue |-> totalInQueue(qs, mine[i])]]

\* storage.getAllSalons()
getAllSalons == <<"s1", "s2">>

\* storage.getOffersBySalon(salonId) filtered to isActive: s2 runs one offer
activeOffers == [s \in Salons |-> IF s = "s2" THEN 1 ELSE 0]

\* variant: every entry of the salon is counted
salonListItem_AllEntries(qs, s) ==
    LET salonQueues == getQueuesBySalon(qs, s)
    IN  [id |-> s, queueCount |-> Len(salonQueues),
         estimatedWaitTime |-> Len(salonQueues) * 15,
         offers |-> activeOffers[s]]

\* GET /api/salons: the details computed for one salon
salonListItem(qs, s) ==
    LET salonQueues   == getQueuesBySalon(qs, s)
        waitingQueues == SelectSeq(salonQueues, LAMBDA q : q.status = "waiting")
    IN  [id |-> s, queueCount |-> Len(waitingQueues),
         estimatedWaitTime |-> Len(waitingQueues) * 15,
         offers |-> activeOffers[s]]

\* GET /api/salons: the list, salons with active offers first (stable sort)
salonList(qs) ==
    LET items == [i \in DOMAIN getAllSalons |-> salonListItem(qs, getAllSalons[i])]
    IN  SelectSeq(items, LAMBDA it : it.offers > 0)
            \o SelectSeq(items, LAMBDA it : ~(it.offers > 0))

\* GET /api/salons/:id
salonDetail(qs, s) ==
    LET salonQueues   == getQueuesBySalon(qs, s)
        waitingQueues == SelectSeq(salonQueues, LAMBDA q : q.status = "waiting")
    IN  [id |-> s, queueCount |-> Len(waitingQueues),
         estimatedWaitTime |-> Len(waitingQueues) * 15,
         offers |-> activeOffers[s]]

\* ---------------------------------------------------------------- analytics
\* the services table: price is the decimal text of the column, kept as its
\* units and its two decimals ("25.00")
serviceTable ==
    << [id |-> "v1", salonId |-> "s1", price |-> [units |-> 25, decimals |-> 0]],
       [id |-> "v2", salonId |-> "s1", price |-> [units |-> 40, decimals |-> 50]],
       [id |-> "v3", salonId |-> "s2", price |-> [units |-> 10, decimals |-> 0]] >>

\* storage.getServicesBySalon(salonId)
getServicesBySalon(s) == SelectSeq(serviceTable, LAMBDA v : v.salonId = s)

\* parseFloat(service.price), in hundredths
parseFloat(price) == price.units * 100 + price.decimals

\* services.find(s => s.id === queue.serviceId): index of the first match, 0 if none
findService(services, queue) ==
    LET hits == {i \in DOMAIN services : services[i].id = queue.serviceId}
    IN  IF hits = {} THEN 0 ELSE CHOOSE i \in hits : \A j \in hits : i <= j

\* variant: the entries of every status are summed
totalRevenue_AnyStatus(salonQueues, services) ==
    LET RECURSIVE sum(_)
        sum(n) ==
            IF n = 0 THEN 0
            ELSE LET i == findService(services, salonQueues[n])
                 IN  sum(n - 1) + (IF i # 0 THEN parseFloat(services[i].price) ELSE 0)
    IN  sum(Len(salonQueues))

\* GET /api/analytics/:salonId, the reduce over the completed entries
totalRevenue(salonQueues, services) ==
    LET completedQueues == SelectSeq(salonQueues, LAMBDA q : q.status = "completed")
        RECURSIVE sum(_)
        sum(n) ==
            IF n = 0 THEN 0
            ELSE LET i == findService(services, completedQueues[n])
                 IN  sum(n - 1) + (IF i # 0 THEN parseFloat(services[i].price) ELSE 0)
    IN  sum(Len(completedQueues))

\* variant: the rate is taken over the completed and no-show entries only
showRate_Finished(salonQueues) ==
    LET completedQueues == SelectSeq(salonQueues, LAMBDA q : q.status = "completed")
        finished == SelectSeq(salonQueues, LAMBDA q : q.status \in {"completed", "no-show"})
    IN  IF Len(finished) > 0
        THEN [num |-> Len(completedQueues) * 100, den |-> Len(finished)]
        ELSE [num |-> 100, den |-> 1]

\* GET /api/analytics/:salonId, showRate as the fraction num / den
showRate(salonQueues) ==
    LET completedQueues == SelectSeq(salonQueues, LAMBDA q : q.status = "completed")
    IN  IF Len(salonQueues) > 0
        THEN [num |-> Len(completedQueues) * 100, den |-> Len(salonQueues)]
        ELSE [num |-> 100, den |-> 1]

\* q.estimatedWaitTime || 15: null, undefined and 0 are falsy
waitOrDefault(e) == IF e = NoWait \/ e = 0 THEN 15 ELSE e

\* GET /api/analytics/:salonId, avgWaitTime as the fraction num / den
avgWaitTime(salonQueues) ==
    LET RECURSIVE sum(_)
        sum(n) == IF n = 0 THEN 0
                  ELSE sum(n - 1) + waitOrDefault(salonQueues[n].estimatedWaitTime)
    IN  IF Len(salonQueues) > 0
        THEN [num |-> sum(Len(salonQueues)), den |-> Len(salonQueues)]
        ELSE [num |-> 0, den |-> 1]

\* services.map(service => ({...service, bookings: ...}))
withBookings(salonQueues, services) ==
    [i \in DOMAIN services |->
        [id |-> services[i].id,
         bookings |-> Len(SelectSeq(salonQueues, LAMBDA q : q.serviceId = services[i].id))]]

\* variant: fewest bookings first
sortByBookings_Ascending(items) ==
    LET RECURSIVE sorted(_)
        sorted(n) ==
            IF n = 0 THEN << >>
            ELSE LET done == sorted(n - 1)
                     x    == items[n]
                     k    == Cardinality({i \in DOMAIN done : done[i].bookings <= x.bookings})
                 IN  SubSeq(done, 1, k) \o <<x>> \o SubSeq(done, k + 1, Len(done))
    IN  sorted(Len(items))

\* .sort((a, b) => b.bookings - a.bookings): a stable sort, most bookings first
sortByBookings(items) ==
    LET RECURSIVE sorted(_)
        sorted(n) ==
            IF n = 0 THEN << >>
            ELSE LET done == sorted(n - 1)
                     x    == items[n]
                     k    == Cardinality({i \in DOMAIN done : done[i].bookings >= x.bookings})
                 IN  SubSeq(done, 1, k) \o <<x>> \o SubSeq(done, k + 1, Len(done))
    IN  sorted(Len(items))

\* GET /api/analytics/:salonId for the owner of salon s
getAnalytics(qs, s) ==
    LET salonQueues == getQueuesBySalon(qs, s)
        services    == getServicesBySalon(s)
    IN  [totalCustomers  |-> Len(salonQueues),
         avgWaitTime     |-> avgWaitTime(salonQueues),
         showRate        |-> showRate(salonQueues),
         revenue         |-> totalRevenue(salonQueues, services),
         popularServices |-> sortByBookings(withBookings(salonQueues, services))]

\* ------------------------------------------------------ concurrent requests
\* The handlers are async functions: each await of a storage call is a point
\* where another request may run.  A request takes its storage calls one at a
\* time: the lookup with its checks, the write, the re-read, and then the
\* broadcast and the answer.
Procs == {"p1", "p2"}

NoUpdates == parsePartial(Body(Absent, Absent, Absent, Absent, AbsentWait, 0))

\* before is history: the entry store as the request found it
NoRequest == [phase |-> "idle", op |-> "none", userId |-> Absent, salonId |-> Absent,
              serviceId |-> Absent, id |-> 0, updates |-> NoUpdates, snapshot |-> << >>,
              before |-> << >>]

Fail(p, resp) ==
    /\ response' = resp
    /\ broadcast' = NoBroadcast
    /\ delivered' = NoDelivery
    /\ inflight' = [inflight EXCEPT ![p] = NoRequest]

\* POST /api/queues up to the await of storage.createQueue
StartJoin(p, u, s, v, e) ==
    /\ inflight[p].phase = "idle"
    /\ UNCHANGED <<queues, nextId, rt, conns, clients, sentAuth, reviews, rating>>
    /\ IF ~validInsert(s, v)
       THEN Fail(p, Reply("join", u, s, 0, 400, "Invalid queue data"))
       ELSE IF alreadyInQueue(getUserQueuePosition(queues, u, s))
       THEN Fail(p, Reply("join", u, s, 0, 400, "Already in queue for this salon"))
       ELSE /\ inflight' = [inflight EXCEPT ![p] =
                   [NoRequest EXCEPT !.phase = "checked", !.op = "join", !.userId = u,
                                     !.salonId = s, !.serviceId = v, !.before = queues]]
            /\ UNCHANGED <<response, broadcast, delivered>>

\* PUT /api/queues/:id up to the await of storage.updateQueue
StartUpdate(p, u, id, body) ==
    LET queue == getQueue(queues, id) IN
    /\ inflight[p].phase = "idle"
    /\ UNCHANGED <<queues, nextId, rt, conns, clients, sentAuth, reviews, rating>>
    /\ IF queue.id = 0
       THEN Fail(p, Reply("update", u, Absent, id, 404, "Queue entry not found"))
       ELSE IF ~mayUpdate(queue, u)
       THEN Fail(p, Reply("update", u, Absent, id, 403, "Not authorized to update this queue entry"))
       ELSE IF ~validPartial(body)
       THEN Fail(p, Reply("update", u, Absent, id, 400, "Invalid update data"))
       ELSE /\ inflight' = [inflight EXCEPT ![p] =
                   [NoRequest EXCEPT !.phase = "checked", !.op = "update", !.userId = u,
                                     !.salonId = queue.salonId, !.id = id,
                                     !.updates = parsePartial(body), !.before = queues]]
            /\ UNCHANGED <<response, broadcast, delivered>>

\* DELETE /api/queues/:id up to the await of storage.deleteQueue
StartLeave(p, u, id) ==
    LET queue == getQueue(queues, id) IN
    /\ inflight[p].phase = "idle"
    /\ UNCHANGED <<queues, nextId, rt, conns, clients, sentAuth, reviews, rating>>
    /\ IF queue.id = 0
       THEN Fail(p, Reply("leave", u, Absent, id, 404, "Queue entry not found"))
       ELSE IF ~mayLeave(queue, u)
       THEN Fail(p, Reply("leave", u, Absent, id, 403, "Not authorized to leave this queue"))
       ELSE /\ inflight' = [inflight EXCEPT ![p] =
                   [NoRequest EXCEPT !.phase = "checked", !.op = "leave", !.userId = u,
                                     !.salonId = queue.salonId, !.id = id, !.before = queues]]
            /\ UNCHANGED <<response, broadcast, delivered>>

\* the storage write of the request in slot p
Write(p) ==
    LET r == inflight[p] IN
    /\ r.phase = "checked"
    /\ IF r.op = "join"
       THEN /\ nextId' = nextId + 1
            /\ queues' = createQueue(queues, nextId + 1, r.userId, r.salonId, r.serviceId, NoWait)
            /\ inflight' = [inflight EXCEPT ![p].phase = "written", ![p].id = nextId + 1]
       ELSE /\ UNCHANGED nextId
            /\ queues' = IF r.op = "update" THEN updateQueue(queues, r.id, r.updates)
                                            ELSE leaveWrite(queues, r.id)
            /\ inflight' = [inflight EXCEPT ![p].phase = "written"]
    /\ UNCHANGED <<response, broadcast, rt, conns, clients, delivered, sentAuth,
                   reviews, rating>>

\* storage.getQueuesBySalon after the write: the list as the store holds it now
Reread(p) ==
    /\ inflight[p].phase = "written"
    /\ inflight' = [inflight EXCEPT ![p].phase = "read",
                                    ![p].snapshot = getQueuesBySalon(queues, inflight[p].salonId)]
    /\ UNCHANGED <<queues, nextId, response, broadcast, rt, conns, clients, delivered, sentAuth,
                   reviews, rating>>

\* storage.getQueuesBySalon after the write throws: the catch block answers
RereadFail(p) ==
    LET r == inflight[p] IN
    /\ r.phase = "written"
    /\ Fail(p, IF r.op = "join" THEN Reply("join", r.userId, r.salonId, 0, 400, "Invalid queue data")
               ELSE IF r.op = "update" THEN Reply("update", r.userId, Absent, r.id, 400, "Invalid update data")
               ELSE Reply("leave", r.userId, Absent, r.id, 500, "Server error"))
    /\ UNCHANGED <<queues, nextId, rt, conns, clients, sentAuth, reviews, rating>>

\* the handler resumes with the list it read: broadcastQueueUpdate and the answer
Publish(p) ==
    LET r == inflight[p] IN
    /\ r.phase = "read"
    /\ broadcast' = [salonId |-> r.salonId, data |-> r.snapshot]
    /\ delivered' = Sends(broadcast', clients, conns)
    /\ response' = IF r.op = "join" THEN Reply("join", r.userId, r.salonId, r.id, 201, "created")
                   ELSE IF r.op = "update" THEN Reply("update", r.userId, Absent, r.id, 200, "updated")
                   ELSE Reply("leave", r.userId, Absent, r.id, 200, "Left queue successfully")
    /\ inflight' = [inflight EXCEPT ![p] = NoRequest]
    /\ UNCHANGED <<queues, nextId, rt, conns, clients, sentAuth, reviews, rating>>

\* ------------------------------------------------------------------ reviews
\* a review body without a rating
NoRating == -1

\* storage.getReviewsBySalon(salonId)
getReviewsBySalon(rs, s) == SelectSeq(rs, LAMBDA r : r.salonId = s)

\* storage.createReview(reviewData)
createReview(rs, u, s, r) == Append(rs, [salonId |-> s, userId |-> u, rating |-> r])

\* allReviews.reduce((sum, r) => sum + r.rating, 0)
sumRatings(allReviews) ==
    LET RECURSIVE sum(_)
        sum(n) == IF n = 0 THEN 0 ELSE sum(n - 1) + allReviews[n].rating
    IN  sum(Len(allReviews))

\* (total / count).toFixed(1), in tenths: the nearest tenth, a half going up
toFixed1(total, count) == (20 * total + count) \div (2 * count)

\* insertReviewSchema.parse succeeds: rating is a required integer
validReview(s, r) == s # Absent /\ r # NoRating

\* POST /api/reviews up to the await of storage.getReviewsBySalon: the parse
\* and storage.createReview
StartReview(p, u, s, r) ==
    /\ inflight[p].phase = "idle"
    /\ UNCHANGED <<queues, nextId, rt, conns, clients, sentAuth, rating>>
    /\ IF ~validReview(s, r)
       THEN /\ Fail(p, Reply("review", u, s, 0, 400, "Invalid review data"))
            /\ UNCHANGED reviews
       ELSE /\ reviews' = createReview(reviews, u, s, r)
            /\ inflight' = [inflight EXCEPT ![p] =
                   [NoRequest EXCEPT !.phase = "reviewed", !.op = "review", !.userId = u,
                                     !.salonId = s, !.id = Len(reviews')]]
            /\ UNCHANGED <<response, broadcast, delivered>>

\* storage.getReviewsBySalon: the reviews as the store holds them now
ReadReviews(p) ==
    /\ inflight[p].phase = "reviewed"
    /\ inflight' = [inflight EXCEPT ![p].phase = "averaging",
                                    ![p].snapshot = getReviewsBySalon(reviews, inflight[p].salonId)]
    /\ UNCHANGED <<queues, nextId, response, broadcast, rt, conns, clients, delivered,
                   sentAuth, reviews, rating>>

\* the handler resumes with the reviews it read: storage.updateSalon with the
\* mean, and the answer
UpdateRating(p) ==
    LET r == inflight[p] IN
    /\ r.phase = "averaging"
    /\ rating' = [rating EXCEPT ![r.salonId] = toFixed1(sumRatings(r.snapshot), Len(r.snapshot))]
    /\ response' = Reply("review", r.userId, r.salonId, r.id, 201, "created")
    /\ broadcast' = NoBroadcast
    /\ delivered' = NoDelivery
    /\ inflight' = [inflight EXCEPT ![p] = NoRequest]
    /\ UNCHANGED <<queues, nextId, rt, conns, clients, sentAuth, reviews>>

\* ------------------------------------------------------------ specification
Init ==
    /\ queues = << >>
    /\ nextId = 0
    /\ response = Reply("none", Absent, Absent, 0, 0, "none")
    /\ broadcast = NoBroadcast
    /\ rt = NoRt
    /\ conns = [c \in Conns |-> "none"]
    /\ clients = << >>
    /\ delivered = NoDelivery
    /\ sentAuth = {}
    /\ inflight = [p \in Procs |-> NoRequest]
    /\ reviews = << >>
    /\ rating = [s \in Salons |-> 0]

Next ==
    \/ \E u \in Customers, s \in Salons, v \in JoinServices, e \in JoinWaits :
          Join(u, s, v, e) /\ nextId' <= MaxEntries
    \/ \E u \in Users, id \in 1..MaxEntries, body \in StatusBodies :
          UpdateStatus(u, id, body)
    \/ \E u \in Users, id \in 1..MaxEntries : Leave(u, id)

Spec == Init /\ [][Next]_vars

\* one salon, its owner doing the status updates, more tickets
NextTickets ==
    \/ \E u \in Customers, e \in JoinWaits :
          Join(u, "s1", "v1", e) /\ nextId' <= MaxTickets
    \/ \E id \in 1..MaxTickets, st \in Status :
          UpdateStatus(ownerId["s1"], id, Body(st, Absent, Absent, Absent, AbsentWait, 0))
    \/ \E u \in Customers, id \in 1..MaxTickets : Leave(u, id)

SpecTickets == Init /\ [][NextTickets]_vars

\* one salon and one customer, who books the salon's services and a foreign one
NextAnalytics ==
    \/ \E v \in {"v1", "v2", "v3"}, e \in JoinWaits :
          Join("a", "s1", v, e) /\ nextId' <= MaxBookings
    \/ \E id \in 1..MaxBookings, st \in Status :
          UpdateStatus(ownerId["s1"], id, Body(st, Absent, Absent, Absent, AbsentWait, 0))
    \/ \E id \in 1..MaxBookings : Leave("a", id)

SpecAnalytics == Init /\ [][NextAnalytics]_vars

\* one customer at one salon, with connections coming, authenticating and going
NextWs ==
    \/ Join("a", "s1", "v1", NoWait) /\ nextId' <= MaxWsEntries
    \/ \E id \in 1..MaxWsEntries, st \in Status :
          UpdateStatus(ownerId["s1"], id, Body(st, Absent, Absent, Absent, AbsentWait, 0))
    \/ \E id \in 1..MaxWsEntries : Leave("a", id)
    \/ \E c \in Conns : Connect(c)
    \/ \E c \in Conns, data \in Messages : Message(c, data)
    \/ \E c \in Conns : BeginClose(c)
    \/ \E c \in Conns : CloseEvent(c)

SpecWs == Init /\ [][NextWs]_vars

\* two request slots at one salon: joins and leaves of the customers, status
\* updates of the owner
NextConc ==
    \/ \E p \in Procs, u \in Customers :
          /\ nextId + Cardinality({q \in Procs : inflight[q].op = "join"
                                                 /\ inflight[q].phase = "checked"})
                < MaxConcEntries
          /\ StartJoin(p, u, "s1", "v1", NoWait)
    \/ \E p \in Procs, id \in 1..MaxConcEntries, st \in {"in-progress", "completed"} :
          StartUpdate(p, ownerId["s1"], id, Body(st, Absent, Absent, Absent, AbsentWait, 0))
    \/ \E p \in Procs, u \in Customers, id \in 1..MaxConcEntries : StartLeave(p, u, id)
    \/ \E p \in Procs : Write(p)
    \/ \E p \in Procs : Reread(p)
    \/ \E p \in Procs : Publish(p)

SpecConc == Init /\ [][NextConc]_vars

\* one salon and one customer, who joins with and without an estimated wait
NextWaits ==
    \/ \E e \in {NoWait, 0, 5} : Join("a", "s1", "v1", e) /\ nextId' <= MaxWaits
    \/ \E id \in 1..MaxWaits, st \in {"in-progress", "completed"} :
          UpdateStatus(ownerId["s1"], id, Body(st, Absent, Absent, Absent, AbsentWait, 0))
    \/ \E id \in 1..MaxWaits : Leave("a", id)

SpecWaits == Init /\ [][NextWaits]_vars

\* one customer at one salon, updates with bodies of several keys
NextPatch ==
    \/ Join("a", "s1", "v1", NoWait) /\ nextId' <= MaxPatched
    \/ \E u \in {"a", "o"}, id \in 1..MaxPatched, body \in PatchBodies :
          UpdateStatus(u, id, body)
    \/ \E u \in Customers, id \in 1..MaxPatched : Leave(u, id)

SpecPatch == Init /\ [][NextPatch]_vars

\* two request slots taking reviews of the two salons
NextReviews ==
    \/ \E p \in Procs, u \in Customers, s \in Salons, r \in {1, 4, 5, NoRating} :
          StartReview(p, u, s, r) /\ Len(reviews') <= MaxReviews
    \/ \E p \in Procs : ReadReviews(p)
    \/ \E p \in Procs : UpdateRating(p)

SpecReviews == Init /\ [][NextReviews]_vars

\* one request at a time, whose re-read may fail
NextAtomic ==
    \/ \E u \in Customers :
          /\ nextId + Cardinality({q \in Procs : inflight[q].op = "join"
                                                 /\ inflight[q].phase = "checked"})
                < MaxAtomicEntries
          /\ StartJoin("p1", u, "s1", "v1", NoWait)
    \/ \E id \in 1..MaxAtomicEntries, st \in {"in-progress", "completed"} :
          StartUpdate("p1", ownerId["s1"], id, Body(st, Absent, Absent, Absent, AbsentWait, 0))
    \/ \E u \in Customers, id \in 1..MaxAtomicEntries : StartLeave("p1", u, id)
    \/ Write("p1")
    \/ Reread("p1")
    \/ RereadFail("p1")
    \/ Publish("p1")

SpecAtomic == Init /\ [][NextAtomic]_vars

\* two request slots, both taking joins of one customer at one salon
NextRace ==
    \/ \E p \in Procs :
          /\ nextId + Cardinality({q \in Procs : inflight[q].op = "join"
                                                 /\ inflight[q].phase = "checked"})
                < MaxRaceEntries
          /\ StartJoin(p, "a", "s1", "v1", NoWait)
    \/ \E p \in Procs, id \in 1..MaxRaceEntries : StartLeave(p, "a", id)
    \/ \E p \in Procs : Write(p)
    \/ \E p \in Procs : Reread(p)
    \/ \E p \in Procs : Publish(p)

SpecRace == Init /\ [][NextRace]_vars

TypeOK ==
    /\ nextId \in Nat
    /\ Ids(queues) \subseteq 1..nextId
    /\ \A i \in DOMAIN queues : queues[i].status \in Status
    /\ \A i, j \in DOMAIN queues : i < j => queues[i].timestamp < queues[j].timestamp

\* ================================================================== claims
IsActive(q) == q.status = "waiting" \/ q.status = "in-progress"

HasActive(qs, u, s) ==
    \E q \in Range(qs) : q.userId = u /\ q.salonId = s /\ IsActive(q)

AlreadyMessage == "Already in queue for this salon"

\* what GET /api/queues/my reports, over all users, for the entries of salon s
Reported(qs, s) ==
    {it \in UNION {Range(myQueues(qs, u)) : u \in Users} : it.salonId = s}

ReportedWaiting(qs, s) == {it \in Reported(qs, s) : it.status = "waiting"}

\* number of entries of salon s with status waiting, counted on the store
waitingCount(qs, s) ==
    Cardinality({i \in DOMAIN qs : qs[i].salonId = s /\ qs[i].status = "waiting"})

C2_AtMostOneActive ==
    \A u \in Users, s \in Salons :
        Cardinality({i \in DOMAIN queues :
            /\ queues[i].userId = u
            /\ queues[i].salonId = s
            /\ IsActive(queues[i])}) <= 1

\* the permitted status edges
Edge(from, to) ==
    \/ from = "waiting" /\ to = "in-progress"
    \/ from = "in-progress" /\ to = "completed"
    \/ from = "waiting" /\ to = "no-show"

\* C3: an update request by an authorized requester whose new status is not
\* reached by a permitted edge from the entry's current status (same status,
\* backward, skipping, or from completed / no-show) fails and leaves the
\* store unchanged.
C3_OnlyPermittedEdges ==
    [][\A u \in Users, id \in Ids(queues), st \in Status :
          ( /\ UpdateStatus(u, id, Body(st, Absent, Absent, Absent, AbsentWait, 0))
            /\ mayUpdate(getQueue(queues, id), u)
            /\ ~Edge(getQueue(queues, id).status, st) )
          => ( response'.status # 200 /\ queues' = queues )]_vars

\* C4: for every salon the ranks reported for its waiting entries are exactly
\* 1..waitingCount, each once, and totalInQueue is waitingCount.
C4_RanksContiguous ==
    \A s \in Salons :
        LET items == ReportedWaiting(queues, s)
            n     == waitingCount(queues, s)
        IN  /\ Cardinality({it.id : it \in items}) = n
            /\ {it.position : it \in items} = 1..n
            /\ \A it1, it2 \in items : it1.position = it2.position => it1.id = it2.id
            /\ \A it \in items : it.totalInQueue = n

\* a waiting entry whose reported rank differs from its stored ticket position
C4_Witness ==
    \E s \in Salons : \E it \in ReportedWaiting(queues, s) :
        /\ waitingCount(queues, s) >= 2
        /\ getQueue(queues, it.id).position # it.position

C6_CustomerCannotUpdate ==
    [][\A u \in Users, id \in Ids(queues) :
          ( /\ response'.op = "update"
            /\ response'.userId = u
            /\ response'.id = id
            /\ getQueue(queues, id).userId = u
            /\ ownerId[getQueue(queues, id).salonId] # u )
          => ( /\ id \in Ids(queues')
               /\ getQueue(queues', id).status = getQueue(queues, id).status )]_vars

\* C7: an update of a missing id is answered 404, an update by a requester
\* who is neither the entry's customer nor its salon's owner is answered 403;
\* both leave the store unchanged and make no broadcast.
C7_UpdateNotFoundNotAuthorized ==
    [][\A u \in Users, id \in 1..MaxEntries :
          ( response'.op = "update" /\ response'.userId = u /\ response'.id = id )
          => /\ id \notin Ids(queues) =>
                  ( /\ response'.status = 404
                    /\ queues' = queues
                    /\ broadcast' = NoBroadcast )
             /\ ( /\ id \in Ids(queues)
                  /\ getQueue(queues, id).userId # u
                  /\ ownerId[getQueue(queues, id).salonId] # u ) =>
                  ( /\ response'.status = 403
                    /\ queues' = queues
                    /\ broadcast' = NoBroadcast )]_vars

\* the owner of another salon was refused the update of an existing entry
C7_Witness ==
    /\ response.op = "update"
    /\ response.status = 403
    /\ response.id \in Ids(queues)
    /\ \E s \in Salons : ownerId[s] = response.userId
    /\ broadcast = NoBroadcast

\* C8: a leave of a missing id is answered 404, a leave by anyone but the
\* entry's customer is answered 403, both without a store change or a
\* broadcast; an entry leaves the store only by its own customer's request.
C8_LeaveOnlyByCustomer ==
    [][\A u \in Users, id \in 1..MaxEntries :
          ( response'.op = "leave" /\ response'.userId = u /\ response'.id = id )
          => /\ id \notin Ids(queues) =>
                  ( /\ response'.status = 404
                    /\ queues' = queues
                    /\ broadcast' = NoBroadcast )
             /\ ( id \in Ids(queues) /\ getQueue(queues, id).userId # u ) =>
                  ( /\ response'.status = 403
                    /\ queues' = queues
                    /\ broadcast' = NoBroadcast )
             /\ ( id \in Ids(queues) /\ getQueue(queues, id).userId = u ) =>
                  ( /\ response'.status = 200
                    /\ queues' = deleteQueue(queues, id) )]_vars

\* the salon owner was refused the removal of a customer's entry
C8_Witness ==
    /\ response.op = "leave"
    /\ response.status = 403
    /\ response.id \in Ids(queues)
    /\ ownerId[getQueue(queues, response.id).salonId] = response.userId
    /\ broadcast = NoBroadcast

\* C9: an entry that leaves the store had status waiting.
C9_DeletedOnlyWhileWaiting ==
    [][\A id \in Ids(queues) :
          id \notin Ids(queues') => getQueue(queues, id).status = "waiting"]_vars

\* the report of GET /api/queues/my for user u restricted to salon s
SalonView(qs, u, s) ==
    {[id |-> it.id, position |-> it.position, totalInQueue |-> it.totalInQueue] :
        it \in {x \in Range(myQueues(qs, u)) : x.salonId = s}}

\* C10: after a successful join and the same customer's leave of that entry
\* right after it, the salon's list no longer holds the entry and every other
\* customer's rank and waiting count at the salon are what they were before
\* the join; against the state in between, a waiting entry behind the removed
\* one is one rank lower and the others keep their rank.
C10_JoinLeaveRoundTrip ==
    rt.phase = "left" =>
        /\ \A i \in DOMAIN getQueuesBySalon(queues, rt.salonId) :
              getQueuesBySalon(queues, rt.salonId)[i].id # rt.id
        /\ \A u \in Users \ {rt.userId} :
              SalonView(queues, u, rt.salonId) = SalonView(rt.before, u, rt.salonId)
        /\ \A it \in ReportedWaiting(queues, rt.salonId) :
              \E m \in ReportedWaiting(rt.mid, rt.salonId) :
                  /\ m.id = it.id
                  /\ it.position = IF m.timestamp > rt.id THEN m.position - 1 ELSE m.position
                  /\ it.totalInQueue = m.totalInQueue - 1

\* a completed round trip at a salon where another customer is waiting
C10_Witness ==
    /\ rt.phase = "left"
    /\ response.op = "leave" /\ response.status = 200 /\ response.id = rt.id
    /\ \E u \in Users \ {rt.userId} : \E it \in Range(myQueues(queues, u)) :
          it.salonId = rt.salonId /\ it.status = "waiting"

\* C11: an in-progress entry is reported with rank 0 and is not counted in
\* totalInQueue; when the first waiting entry of a salon is moved to
\* in-progress, every remaining waiting entry's rank and the waiting count
\* drop by one.
C11_InProgressRankZero ==
    [][/\ \A s \in Salons : \A it \in Reported(queues', s) :
            /\ it.status = "in-progress" => it.position = 0
            /\ it.totalInQueue = waitingCount(queues', s)
       /\ \A id \in Ids(queues) :
            ( /\ response'.op = "update" /\ response'.status = 200
              /\ response'.id = id
              /\ getQueue(queues, id).status = "waiting"
              /\ userPosition(queues, getQueue(queues, id)) = 1
              /\ getQueue(queues', id).status = "in-progress" )
            => \A q \in Range(queues) :
                  ( /\ q.id # id
                    /\ q.salonId = getQueue(queues, id).salonId
                    /\ q.status = "waiting" )
                  => /\ userPosition(queues', getQueue(queues', q.id))
                          = userPosition(queues, q) - 1
                     /\ totalInQueue(queues', getQueue(queues', q.id))
                          = totalInQueue(queues, q) - 1]_vars

\* the first waiting entry was just moved to in-progress and a later waiting
\* entry of the salon, with ticket position 2, is now reported with rank 1
C11_Witness ==
    /\ response.op = "update" /\ response.status = 200
    /\ response.id \in Ids(queues)
    /\ getQueue(queues, response.id).status = "in-progress"
    /\ userPosition(queues, getQueue(queues, response.id)) = 0
    /\ \E q \in Range(queues) :
          /\ q.salonId = getQueue(queues, response.id).salonId
          /\ q.status = "waiting"
          /\ q.timestamp > getQueue(queues, response.id).timestamp
          /\ q.position = 2
          /\ userPosition(queues, q) = 1

\* the items of the salon list that describe salon s
ListItems(qs, s) == {i \in DOMAIN salonList(qs) : salonList(qs)[i].id = s}

\* C12: in the salon list and in the single-salon read, queueCount is the
\* number of the salon's waiting entries and estimatedWaitTime is 15 times it.
C12_QueueCountAndWait ==
    \A s \in Salons :
        /\ salonDetail(queues, s).queueCount = waitingCount(queues, s)
        /\ salonDetail(queues, s).estimatedWaitTime = waitingCount(queues, s) * 15
        /\ Cardinality(ListItems(queues, s)) = 1
        /\ \A i \in ListItems(queues, s) :
              /\ salonList(queues)[i].queueCount = waitingCount(queues, s)
              /\ salonList(queues)[i].estimatedWaitTime = waitingCount(queues, s) * 15

\* a salon with a waiting entry and an entry that is not waiting
C12_Witness ==
    \E s \in Salons :
        /\ waitingCount(queues, s) = 1
        /\ \E q \in Range(queues) : q.salonId = s /\ q.status # "waiting"

\* the salon of the entry the last request was about
TargetSalon(qs, resp) ==
    IF resp.op = "join" THEN resp.salonId ELSE getQueue(qs, resp.id).salonId

\* C13: a successful join, update or leave makes one broadcastQueueUpdate call
\* for the entry's salon, carrying every entry of that salon as stored after
\* the write, each once.
C13_BroadcastAfterWrite ==
    [][response'.status \in {200, 201} =>
          LET S == TargetSalon(queues, response') IN
          /\ broadcast'.salonId = S
          /\ Range(broadcast'.data) = {q \in Range(queues') : q.salonId = S}
          /\ Len(broadcast'.data) = Cardinality(Range(broadcast'.data))]_vars

\* an update whose broadcast list already shows the new status
C13_Witness ==
    /\ response.op = "update" /\ response.status = 200
    /\ \E i \in DOMAIN broadcast.data :
          /\ broadcast.data[i].id = response.id
          /\ broadcast.data[i].status = "completed"
    /\ Len(broadcast.data) >= 2

\* the entries of salon s, counted on the store
EntriesOf(qs, s) == {i \in DOMAIN qs : qs[i].salonId = s}

CompletedOf(qs, s) == {i \in EntriesOf(qs, s) : qs[i].status = "completed"}

\* C19: showRate is 100 for a salon without entries and 100 * K / N for a
\* salon with N > 0 entries of which K are completed.
C19_ShowRate ==
    \A s \in Salons :
        LET N  == Cardinality(EntriesOf(queues, s))
            K  == Cardinality(CompletedOf(queues, s))
            sr == getAnalytics(queues, s).showRate
        IN  /\ sr.den > 0
            /\ N = 0 => sr.num = 100 * sr.den
            /\ N > 0 => sr.num * N = 100 * K * sr.den

\* three entries, one completed, one no-show, one not finished
C19_Witness ==
    /\ Cardinality(EntriesOf(queues, "s1")) = 3
    /\ Cardinality(CompletedOf(queues, "s1")) = 1
    /\ \E i, j \in EntriesOf(queues, "s1") :
          /\ queues[i].status = "no-show"
          /\ queues[j].status \in {"waiting", "in-progress"}

\* the price, in hundredths, of service v when salon s offers it, else 0
PriceAt(s, v) ==
    LET offered == {i \in DOMAIN serviceTable :
                        serviceTable[i].salonId = s /\ serviceTable[i].id = v}
    IN  IF offered = {} THEN 0
        ELSE LET i == CHOOSE i \in offered : TRUE
             IN  serviceTable[i].price.units * 100 + serviceTable[i].price.decimals

RECURSIVE SumPrices(_, _, _)
SumPrices(qs, s, idx) ==
    IF idx = {} THEN 0
    ELSE LET i == CHOOSE i \in idx : TRUE
         IN  PriceAt(s, qs[i].serviceId) + SumPrices(qs, s, idx \ {i})

\* C20: revenue is the sum over the salon's completed entries of the price of
\* the entry's service; a service the salon does not offer counts 0 and
\* entries in another status count nothing.
C20_Revenue ==
    \A s \in Salons :
        getAnalytics(queues, s).revenue = SumPrices(queues, s, CompletedOf(queues, s))

\* a completed entry of a priced service, a completed entry whose service the
\* salon does not offer, and a no-show entry
C20_Witness ==
    \E i, j, k \in EntriesOf(queues, "s1") :
        /\ queues[i].status = "completed" /\ queues[i].serviceId = "v1"
        /\ queues[j].status = "completed" /\ queues[j].serviceId = "v3"
        /\ queues[k].status = "no-show" /\ queues[k].serviceId = "v2"
        /\ getAnalytics(queues, "s1").revenue = 2500

\* a step of one of the three mutating requests (the connections stand still)
RequestStep == conns' = conns /\ clients' = clients /\ sentAuth' = sentAuth

Succeeded(resp) == resp.status \in {200, 201}

\* user u views salon s: its owner, or a customer with an entry there
Viewer(qs, u, s) ==
    ownerId[s] = u \/ \E q \in Range(qs) : q.userId = u /\ q.salonId = s

\* connection c is open and registered for a user who views salon s before or
\* after the write
SubscribedTo(c, s) ==
    /\ conns[c] = "open"
    /\ \E i \in DOMAIN clients :
          /\ clients[i].ws = c
          /\ (Viewer(queues, clients[i].userId, s) \/ Viewer(queues', clients[i].userId, s))

\* C14: the connections that receive the broadcast for salon S are exactly the
\* connections subscribed to S; one subscribed only for other salons gets nothing.
C14_RecipientsAreSubscribers ==
    [][(RequestStep /\ Succeeded(response') /\ broadcast' # NoBroadcast) =>
          \A c \in Conns :
              delivered'[c].sent > 0 <=> SubscribedTo(c, broadcast'.salonId)]_vars

\* C15: a connection is sent a broadcast only after it has sent an authenticate
\* message carrying a customer id.
C15_OnlyAfterAuthenticate ==
    \A c \in Conns : delivered[c].sent > 0 => c \in sentAuth

\* a broadcast reached an authenticated connection and passed by an open one
\* that never authenticated
C15_Witness ==
    /\ Succeeded(response)
    /\ \E c, d \in Conns :
          /\ conns[c] = "open" /\ c \notin sentAuth /\ delivered[c].sent = 0
          /\ d \in sentAuth /\ delivered[d].sent > 0

\* C16: one broadcast is sent at most once to any one connection.
C16_AtMostOncePerConnection ==
    \A c \in Conns : delivered[c].sent <= 1

\* C17: during a broadcast a registered connection that is not open is passed
\* over, every registered open connection is sent the message, and the
\* request succeeds.
C17_NotOpenSkipped ==
    [][(RequestStep /\ broadcast' # NoBroadcast) =>
          /\ Succeeded(response')
          /\ \A i \in DOMAIN clients :
                LET c == clients[i].ws IN
                /\ conns[c] # "open" => delivered'[c].sent = 0
                /\ conns[c] = "open" => delivered'[c].sent >= 1]_vars

\* the last request succeeded, its broadcast passed over a registered
\* connection that was not open and was sent to another one
C17_Witness ==
    /\ Succeeded(response)
    /\ \E c, d \in Conns :
          /\ delivered[c].skipped > 0 /\ delivered[c].sent = 0
          /\ delivered[d].sent > 0

Quiescent == \A p \in Procs : inflight[p].phase = "idle"

\* C18: broadcasts for a salon arrive in the order of the mutations, under any
\* interleaving of concurrent requests: once every request has answered, the
\* last list broadcast for the salon is the list the store holds.
C18_LastBroadcastIsFinalList ==
    (Quiescent /\ broadcast # NoBroadcast) =>
        broadcast.data = getQueuesBySalon(queues, broadcast.salonId)

RECURSIVE SumWaits(_, _)
SumWaits(qs, idx) ==
    IF idx = {} THEN 0
    ELSE LET i == CHOOSE i \in idx : TRUE
         IN  (IF qs[i].estimatedWaitTime = NoWait THEN 15 ELSE qs[i].estimatedWaitTime)
                + SumWaits(qs, idx \ {i})

\* C21: avgWaitTime is the mean over the salon's entries of the entry's
\* estimatedWaitTime, an entry without a value counting 15 and every entry with
\* a value counting that value; it is 0 for a salon without entries.
C21_AvgWaitTime ==
    \A s \in Salons :
        LET N   == Cardinality(EntriesOf(queues, s))
            avg == getAnalytics(queues, s).avgWaitTime
        IN  /\ avg.den > 0
            /\ N = 0 => avg.num = 0
            /\ N > 0 => avg.num * N = SumWaits(queues, EntriesOf(queues, s)) * avg.den

\* C22: totalCustomers counts the entries ever recorded for the salon, so no
\* step makes it smaller.
C22_TotalCustomersNeverDecreases ==
    [][\A s \in Salons :
          getAnalytics(queues', s).totalCustomers >= getAnalytics(queues, s).totalCustomers]_vars

\* the number of entries of salon s that reference service v
BookingsOf(qs, s, v) == Cardinality({i \in EntriesOf(qs, s) : qs[i].serviceId = v})

\* the place of service v in the salon's services
ServiceOrder(s, v) ==
    CHOOSE i \in DOMAIN serviceTable :
        /\ serviceTable[i].id = v
        /\ serviceTable[i].salonId = s

\* C23: popularServices holds every service of the salon once, each with the
\* number of the salon's entries that reference it, most bookings first and
\* services of equal bookings in their service order.
C23_PopularServices ==
    \A s \in Salons :
        LET ps  == getAnalytics(queues, s).popularServices
            ids == {serviceTable[i].id : i \in {j \in DOMAIN serviceTable : serviceTable[j].salonId = s}}
        IN  /\ {ps[i].id : i \in DOMAIN ps} = ids
            /\ Len(ps) = Cardinality(ids)
            /\ \A i \in DOMAIN ps : ps[i].bookings = BookingsOf(queues, s, ps[i].id)
            /\ \A i, j \in DOMAIN ps :
                  i < j =>
                      \/ ps[i].bookings > ps[j].bookings
                      \/ /\ ps[i].bookings = ps[j].bookings
                         /\ ServiceOrder(s, ps[i].id) < ServiceOrder(s, ps[j].id)

\* the second service has more bookings than the first and leads the list
C23_Witness ==
    LET ps == getAnalytics(queues, "s1").popularServices
    IN  /\ ps[1].id = "v2" /\ ps[1].bookings = 2
        /\ ps[2].id = "v1" /\ ps[2].bookings = 1

\* C24: the stored ticket position of an entry never changes after creation,
\* whatever the update bodies carry and whatever joins and leaves follow.
C24_PositionNeverChanges ==
    [][\A q \in Range(queues), r \in Range(queues') :
          q.id = r.id => q.position = r.position]_vars

\* an update whose body carried a position succeeded on the second entry, whose
\* ticket is still the one it got when it joined after a leave
C24_Witness ==
    /\ response.op = "update" /\ response.status = 200 /\ response.id = 2
    /\ getQueue(queues, 2).status = "completed"
    /\ getQueue(queues, 2).position = 1
    /\ getQueue(queues, 1).id = 0

\* C28: an update changes only the status: the salon, customer and service
\* references of an entry stay as they were at creation.
C28_UpdateKeepsReferences ==
    [][\A q \in Range(queues), r \in Range(queues') :
          q.id = r.id =>
              /\ q.salonId = r.salonId
              /\ q.userId = r.userId
              /\ q.serviceId = r.serviceId]_vars

\* C29: once a connection has closed, no entry of the clients Map refers to
\* it, whatever authenticate messages it sent before.
C29_ClosedNotRegistered ==
    \A i \in DOMAIN clients : conns[clients[i].ws] # "closed"

\* C30: a connection that has sent an authenticate message and is still open
\* is sent every broadcast made afterwards, whatever other connections
\* authenticate or close in between.
C30_AuthenticatedOpenReceives ==
    [][(RequestStep /\ broadcast' # NoBroadcast) =>
          \A c \in sentAuth : conns[c] = "open" => delivered'[c].sent >= 1]_vars

\* the reviews of salon s, counted on the store
ReviewsOf(rs, s) == {i \in DOMAIN rs : rs[i].salonId = s}

RECURSIVE SumRatingsOf(_, _)
SumRatingsOf(rs, idx) ==
    IF idx = {} THEN 0
    ELSE LET i == CHOOSE i \in idx : TRUE
         IN  rs[i].rating + SumRatingsOf(rs, idx \ {i})

\* rating t, in tenths, is the mean total / count rounded to one decimal
IsRoundedMean(t, total, count) ==
    /\ 2 * count * t <= 20 * total + count
    /\ 20 * total + count < 2 * count * (t + 1)

\* C25: once every review request for a salon has finished, whatever the
\* interleaving, the stored rating of the salon is the mean of its stored
\* reviews rounded to one decimal.
C25_RatingIsMeanWhenQuiet ==
    Quiescent =>
        \A s \in Salons :
            ReviewsOf(reviews, s) # {} =>
                IsRoundedMean(rating[s], SumRatingsOf(reviews, ReviewsOf(reviews, s)),
                              Cardinality(ReviewsOf(reviews, s)))

\* C26: a join, update or leave that answers with a failure, a failure of the
\* re-read for the broadcast included, leaves the entry store as the request
\* found it.
C26_FailureLeavesStore ==
    [][\A p \in Procs :
          (inflight[p].phase # "idle" /\ inflight'[p].phase = "idle"
                /\ response'.status >= 400) =>
              queues' = inflight[p].before]_vars

\* C27: of two concurrent joins by one customer for one salon at most one
\* creates an entry, so no customer has two waiting entries at a salon.
C27_NoTwoWaitingEntries ==
    \A u \in Users, s \in Salons :
        Cardinality({i \in DOMAIN queues :
                        /\ queues[i].userId = u
                        /\ queues[i].salonId = s
                        /\ queues[i].status = "waiting"}) <= 1

====
